---------------------------- MODULE Spec2Model ----------------------------
(***************************************************************************)
(* Model of the road-bike tire recommendation page (src/src/pages/         *)
(* Index.tsx) and of the webhook relay endpoint (src/unnamed/part_000).    *)
(*                                                                         *)
(* Numbers.  The page computes scores in IEEE doubles with the weights     *)
(* 0.8/0.2, 0.6/0.4 and 0.35/0.65.  The model keeps every score exact, in  *)
(* hundredths: a score s of the page is the integer 100*s here.  On the    *)
(* integer measurements the model draws, two scores compare in doubles     *)
(* exactly as they compare here (strictly greater stays strictly greater,  *)
(* and the rows that tie here were computed from equal measurements, so    *)
(* they tie in doubles too).                                               *)
(*                                                                         *)
(* Nullable columns.  A nullable number is <<>> (null) or <<v>>.           *)
(***************************************************************************)
EXTENDS Integers, Sequences, FiniteSets, TLC

VARIABLES
    wetPref,      \* React state, Index.tsx:47
    widthPref,    \* React state, Index.tsx:48
    results,      \* React state, Index.tsx:49
    loading,      \* React state, Index.tsx:50
    showResults,  \* React state, Index.tsx:51
    feedback,     \* React state, Index.tsx:52
    gen,          \* the handleGenerate invocation in flight or last finished
    feedbackRow,  \* the row handleFeedback sent for the results on display
    call,         \* a call of a pure part of the page: its arguments and result
    relay         \* the relay handler's invocation: request, calls made, responses

vars == <<wetPref, widthPref, results, loading, showResults, feedback,
          gen, feedbackRow, call, relay>>

uiVars == <<wetPref, widthPref, results, loading, showResults, feedback,
            gen, feedbackRow>>

---------------------------------------------------------------------------
(* Bounds of the model. *)

\* Longest candidate list a call of the ranking draws.
MaxFetch == 4

\* Longest candidate list a fetch of the page returns.
MaxPageFetch == 3

---------------------------------------------------------------------------
(* Values. *)

None == <<>>
Some(v) == <<v>>
\* A nullable number used as a number: JavaScript reads null as 0 in
\* arithmetic and in Math.min (the non-null assertions t.wet_center! of the
\* page are compile-time only).
Val(x) == IF x = None THEN 0 ELSE x[1]

WetPreference == {"very", "normal", "not"}
WidthPreference == {"28", "wider"}

\* Measurements <<wet_center, wet_edge, rr_high_w>> of eligible rows.  No two
\* of them give the same score under any of the three weightings.
MeasA == <<Some(70), Some(72), Some(10)>>
MeasB == <<Some(90), Some(92), Some(8)>>
MeasC == <<Some(60), Some(61), Some(20)>>

\* Measurements with one column null.
IneligibleMeas ==
    { <<None, Some(72), Some(10)>>,
      <<Some(70), None, Some(10)>>,
      <<Some(70), Some(72), None>> }

Shape(w, m) ==
    [width_spec_mm |-> w, wet_center |-> m[1], wet_edge |-> m[2], rr_high_w |-> m[3]]

\* The row shapes a fetch can return (a row's id is added by WithIds).
\* Widths: missing, the narrow width 28, the wide widths 30 and 32.
TireShapes ==
    { Shape(w, MeasA) : w \in {None, Some(28), Some(30)} }
      \cup { Shape(w, MeasB) : w \in {Some(28), Some(30), Some(32)} }
      \cup { Shape(Some(28), MeasC) }
      \cup { Shape(Some(28), m) : m \in IneligibleMeas }

RECURSIVE SeqsUpTo(_, _)
SeqsUpTo(S, n) ==
    IF n = 0 THEN { <<>> }
    ELSE LET shorter == SeqsUpTo(S, n - 1)
         IN  shorter \cup { Append(s, x) : s \in { t \in shorter : Len(t) = n - 1 }, x \in S }

\* Rows of the tires table have a unique key: the row at position i of a
\* fetched list gets id i.
WithIds(shapes) ==
    [i \in 1..Len(shapes) |->
        [id |-> i,
         width_spec_mm |-> shapes[i].width_spec_mm,
         wet_center |-> shapes[i].wet_center,
         wet_edge |-> shapes[i].wet_edge,
         rr_high_w |-> shapes[i].rr_high_w]]

FetchLists(n) == { WithIds(s) : s \in SeqsUpTo(TireShapes, n) }

---------------------------------------------------------------------------
(* handleGenerate: filter, score, partition, sort, merge (Index.tsx:98-142). *)

Min(a, b) == IF a <= b THEN a ELSE b

\* The table with the two weights of "not" exchanged.
WEIGHT_CONFIG_NotSwapped ==
    [very   |-> [wg |-> 80, rr |-> 20],
     normal |-> [wg |-> 60, rr |-> 40],
     not    |-> [wg |-> 65, rr |-> 35]]

\* WEIGHT_CONFIG in hundredths.
WEIGHT_CONFIG ==
    [very   |-> [wg |-> 80, rr |-> 20],
     normal |-> [wg |-> 60, rr |-> 40],
     not    |-> [wg |-> 35, rr |-> 65]]

\* The filter with the rr_high_w test left out.
IsValidTire_WetOnly(t) ==
    t.wet_center # None /\ t.wet_edge # None

\* (data || []).filter(...)'s predicate.
IsValidTire(t) ==
    t.wet_center # None /\ t.wet_edge # None /\ t.rr_high_w # None

validTires(data) == SelectSeq(data, IsValidTire)

\* The body of validTires.map: one TireWithScore.
ScoreTire(t, weights) ==
    LET wg == Min(Val(t.wet_center), Val(t.wet_edge))
        rr == Val(t.rr_high_w)
        rrNorm == 30 - rr
        score == wg * weights.wg + rrNorm * weights.rr
    IN  [id |-> t.id,
         width_spec_mm |-> t.width_spec_mm,
         wet_center |-> t.wet_center,
         wet_edge |-> t.wet_edge,
         rr_high_w |-> t.rr_high_w,
         score |-> score, wg |-> wg, rr |-> rr, explanation |-> ""]

tiresWithScore(valid, wp) ==
    [i \in 1..Len(valid) |-> ScoreTire(valid[i], WEIGHT_CONFIG[wp])]

preferredWidths(wdp) == IF wdp = "28" THEN {28} ELSE {30, 32}

\* A missing width read as the narrow width: t.width_spec_mm || 28.
WidthOrZero_Default28(t) == IF t.width_spec_mm = None THEN 28 ELSE Val(t.width_spec_mm)

\* t.width_spec_mm || 0
WidthOrZero(t) == IF t.width_spec_mm = None THEN 0 ELSE Val(t.width_spec_mm)

IsPreferred(t, wdp) == WidthOrZero(t) \in preferredWidths(wdp)

preferred(scored, wdp) == SelectSeq(scored, LAMBDA t : IsPreferred(t, wdp))
others(scored, wdp) == SelectSeq(scored, LAMBDA t : ~IsPreferred(t, wdp))

\* The comparator with its operands exchanged: ascending.
Compare_Ascending(a, b) == a.score - b.score

\* The comparator (a, b) => b.score - a.score: negative puts a first.
Compare(a, b) == b.score - a.score

\* Array.prototype.sort is stable: x goes after every element that does not
\* compare after it.
RECURSIVE InsertSorted(_, _)
InsertSorted(sorted, x) ==
    IF sorted = <<>> THEN <<x>>
    ELSE IF Compare(Head(sorted), x) <= 0
         THEN <<Head(sorted)>> \o InsertSorted(Tail(sorted), x)
         ELSE <<x>> \o sorted

RECURSIVE SortFrom(_, _, _)
SortFrom(seq, k, acc) ==
    IF k > Len(seq) THEN acc ELSE SortFrom(seq, k + 1, InsertSorted(acc, seq[k]))

SortByScore(seq) == SortFrom(seq, 1, <<>>)

\* The while loop of the merge.
RECURSIVE MergeLoop(_, _, _, _, _)
MergeLoop(pref, oth, top3, i, j) ==
    IF Len(top3) < 3
    THEN IF i < Len(pref) THEN MergeLoop(pref, oth, Append(top3, pref[i + 1]), i + 1, j)
         ELSE IF j < Len(oth) THEN MergeLoop(pref, oth, Append(top3, oth[j + 1]), i, j + 1)
         ELSE top3
    ELSE top3

\* A merge that interleaves the two lists by score instead of exhausting
\* the preferred list first.
MergeTop3_ByScore(pref, oth) ==
    LET all == SortByScore(pref \o oth)
    IN  SubSeq(all, 1, Min(3, Len(all)))

MergeTop3(pref, oth) == MergeLoop(pref, oth, <<>>, 0, 0)

\* Lines 98-142 as a whole: the fetched rows to top3.
Top3(data, wp, wdp) ==
    LET scored == tiresWithScore(validTires(data), wp)
    IN  MergeTop3(SortByScore(preferred(scored, wdp)), SortByScore(others(scored, wdp)))

---------------------------------------------------------------------------
(* generateReason (Index.tsx:27-44).  The page returns Chinese sentences;   *)
(* the model names each sentence by the tag the specification gives it.    *)

REASON_VERY_STRONG == "wet-priority, strong grip"               \* line 32
REASON_VERY_OTHER == "acceptable wet performance"               \* line 33
REASON_NOT_LOW == "efficiency-optimized, low resistance"        \* line 36
REASON_NOT_OTHER == "balanced"                                  \* line 37
REASON_NORMAL_BOTH == "all-around, wet+efficient"               \* line 40
REASON_NORMAL_WET == "wet-focused, acceptable efficiency"       \* line 41
REASON_NORMAL_RR == "efficiency-focused, acceptable wet"        \* line 42
REASON_NORMAL_OTHER == "balanced, daily-use"                    \* line 43

\* generateReason with the grip threshold exclusive (wg > 75).
generateReason_StrictGrip(tire, wp) ==
    LET wgStrong == tire.wg > 75
        rrLow == tire.rr <= 12
    IN  IF wp = "very" THEN (IF wgStrong THEN REASON_VERY_STRONG ELSE REASON_VERY_OTHER)
        ELSE IF wp = "not" THEN (IF rrLow THEN REASON_NOT_LOW ELSE REASON_NOT_OTHER)
        ELSE IF wgStrong /\ rrLow THEN REASON_NORMAL_BOTH
        ELSE IF wgStrong THEN REASON_NORMAL_WET
        ELSE IF rrLow THEN REASON_NORMAL_RR
        ELSE REASON_NORMAL_OTHER

generateReason(tire, wp) ==
    LET wgStrong == tire.wg >= 75
        rrLow == tire.rr <= 12
    IN  IF wp = "very" THEN (IF wgStrong THEN REASON_VERY_STRONG ELSE REASON_VERY_OTHER)
        ELSE IF wp = "not" THEN (IF rrLow THEN REASON_NOT_LOW ELSE REASON_NOT_OTHER)
        ELSE IF wgStrong /\ rrLow THEN REASON_NORMAL_BOTH
        ELSE IF wgStrong THEN REASON_NORMAL_WET
        ELSE IF rrLow THEN REASON_NORMAL_RR
        ELSE REASON_NORMAL_OTHER

---------------------------------------------------------------------------
(* The initial values of the page's state (Index.tsx:47-52). *)

\* handleGenerate's invocation.  pc: "idle" (never called), "fetch" (awaiting
\* line 94), "explain" (awaiting the Promise.all of line 145), "done".
\* wetPref and widthPref are the values its closure captured; top3 the merged
\* list; expl[k] the state of the lookup for top3[k] ("pending", "ok",
\* "error", "threw", "nodata"); items[k] what its callback returned.  scored
\* says that lines 104-111 ran, lookups counts the calls of line 147, and
\* outcome how the invocation ended ("shown", "fetchError", "fetchThrew",
\* "explainRejected").  A finished invocation keeps what it observed (expl,
\* scored, lookups, outcome), not its local lists.
IdleGen ==
    [pc |-> "idle", wetPref |-> "normal", widthPref |-> "28", top3 |-> <<>>,
     expl |-> <<>>, items |-> <<>>, scored |-> FALSE, lookups |-> 0, outcome |-> "none"]
IdleRelay == [pc |-> "idle"]
NoCall == [op |-> "none"]

UIInit ==
    /\ wetPref = "normal"
    /\ widthPref = "28"
    /\ results = <<>>
    /\ loading = FALSE
    /\ showResults = FALSE
    /\ feedback = None
    /\ gen = IdleGen
    /\ feedbackRow = None

---------------------------------------------------------------------------
(* The page (Index.tsx:46-245): one action per event handler and per       *)
(* resumption of handleGenerate after an await.  A resumption runs to the  *)
(* next await or to the end of the function without interleaving.          *)

FeedbackValues == {"helpful", "neutral", "not_helpful"}

\* The rows a fetch of the page can return.
PageShapes ==
    { Shape(Some(28), MeasA), Shape(Some(30), MeasB),
      Shape(Some(28), <<Some(70), Some(72), None>>) }

PageFetchLists == { WithIds(sh) : sh \in SeqsUpTo(PageShapes, MaxPageFetch) }

\* What the explanation provider answers in data.explanation.
ProviderTexts == {"ai-text"}

\* The option buttons of question 1 (line 398), rendered in the input view.
SetWetPref ==
    /\ ~showResults
    /\ \E v \in WetPreference : wetPref' = v
    /\ UNCHANGED <<widthPref, results, loading, showResults, feedback, gen, feedbackRow, call, relay>>

\* The option buttons of question 2 (line 420), rendered in the input view.
SetWidthPref ==
    /\ ~showResults
    /\ \E v \in WidthPreference : widthPref' = v
    /\ UNCHANGED <<wetPref, results, loading, showResults, feedback, gen, feedbackRow, call, relay>>

\* The generate button without disabled={loading}.
GenerateClick_NotDisabled ==
    /\ ~showResults
    /\ loading' = TRUE
    /\ feedback' = None
    /\ gen' = [IdleGen EXCEPT !.pc = "fetch", !.wetPref = wetPref, !.widthPref = widthPref]
    /\ UNCHANGED <<wetPref, widthPref, results, showResults, feedbackRow, call, relay>>

\* The generate button (lines 434-437: rendered in the input view, disabled
\* while loading) runs handleGenerate to its first await (lines 89-94).
GenerateClick ==
    /\ ~showResults
    /\ ~loading
    /\ loading' = TRUE
    /\ feedback' = None
    /\ gen' = [IdleGen EXCEPT !.pc = "fetch", !.wetPref = wetPref, !.widthPref = widthPref]
    /\ UNCHANGED <<wetPref, widthPref, results, showResults, feedbackRow, call, relay>>

\* The catch and finally blocks with the finally block left out.
GenerateAbort_NoFinally(outcome) ==
    /\ gen' = [gen EXCEPT !.pc = "done", !.outcome = outcome]
    /\ UNCHANGED <<wetPref, widthPref, results, loading, showResults, feedback, feedbackRow, call, relay>>

\* Lines 181-185: catch logs, finally clears loading.
GenerateAbort(outcome) ==
    /\ loading' = FALSE
    /\ gen' = [gen EXCEPT !.pc = "done", !.outcome = outcome]
    /\ UNCHANGED <<wetPref, widthPref, results, showResults, feedback, feedbackRow, call, relay>>

\* Lines 166-167 and the finally block: the results are set and shown.
GenerateShow(g) ==
    /\ results' = g.items
    /\ showResults' = TRUE
    /\ loading' = FALSE
    /\ gen' = [g EXCEPT !.pc = "done", !.outcome = "shown", !.top3 = <<>>, !.items = <<>>]
    /\ UNCHANGED <<wetPref, widthPref, feedback, feedbackRow, call, relay>>

\* The fetch of line 94 answers with an error (line 96 throws it) or rejects.
GenerateFetchFails ==
    /\ gen.pc = "fetch"
    /\ \E outcome \in {"fetchError", "fetchThrew"} : GenerateAbort(outcome)

\* The fetch of line 94 answers with data (null or a list): lines 98-155,
\* to the await of Promise.all.  With no item, Promise.all resolves at once.
GenerateFetchReturns ==
    /\ gen.pc = "fetch"
    /\ \E data \in {None} \cup { Some(d) : d \in PageFetchLists } :
          LET rows == IF data = None THEN <<>> ELSE data[1]
              top3 == Top3(rows, gen.wetPref, gen.widthPref)
              g == [gen EXCEPT !.scored = TRUE, !.top3 = top3,
                               !.expl = [k \in 1..Len(top3) |-> "pending"],
                               !.items = top3,
                               !.lookups = Len(top3)]
          IN  IF top3 = <<>>
              THEN GenerateShow(g)
              ELSE /\ gen' = [g EXCEPT !.pc = "explain"]
                   /\ UNCHANGED <<wetPref, widthPref, results, loading, showResults,
                                  feedback, feedbackRow, call, relay>>

AllSettled(expl) == \A k \in 1..Len(expl) : expl[k] \in {"ok", "error"}

\* The callback of line 146 finishes for item k: the provider answered with
\* an explanation (line 162) or with an error (lines 157-160).  When it is
\* the last one, Promise.all resolves and lines 166-167 run.
ExplainSettles ==
    /\ gen.pc = "explain"
    /\ \E k \in 1..Len(gen.top3) :
          /\ gen.expl[k] = "pending"
          /\ \E answer \in {"error"} \cup ProviderTexts :
                LET tire == gen.top3[k]
                    text == IF answer = "error" THEN generateReason(tire, gen.wetPref)
                            ELSE answer
                    g == [gen EXCEPT !.expl[k] = IF answer = "error" THEN "error" ELSE "ok",
                                     !.items[k] = [tire EXCEPT !.explanation = text]]
                IN  IF AllSettled(g.expl)
                    THEN GenerateShow(g)
                    ELSE /\ gen' = g
                         /\ UNCHANGED <<wetPref, widthPref, results, loading, showResults,
                                        feedback, feedbackRow, call, relay>>

\* The call of line 147 rejects for item k: the callback has no catch, so
\* Promise.all rejects at once and the catch of line 181 takes over; the
\* lookups still pending are abandoned.
ExplainThrows ==
    /\ gen.pc = "explain"
    /\ \E k \in 1..Len(gen.top3) :
          /\ gen.expl[k] = "pending"
          /\ loading' = FALSE
          /\ gen' = [gen EXCEPT !.pc = "done", !.outcome = "explainRejected",
                                 !.expl[k] = "threw", !.top3 = <<>>, !.items = <<>>]
          /\ UNCHANGED <<wetPref, widthPref, results, showResults, feedback, feedbackRow, call, relay>>

\* The call of line 147 answers with neither data nor error: line 162 reads
\* a property of null and throws, with the same effect.
ExplainNullData ==
    /\ gen.pc = "explain"
    /\ \E k \in 1..Len(gen.top3) :
          /\ gen.expl[k] = "pending"
          /\ loading' = FALSE
          /\ gen' = [gen EXCEPT !.pc = "done", !.outcome = "explainRejected",
                                 !.expl[k] = "nodata", !.top3 = <<>>, !.items = <<>>]
          /\ UNCHANGED <<wetPref, widthPref, results, showResults, feedback, feedbackRow, call, relay>>

\* handleReset without its setFeedback(null).
handleReset_KeepFeedback ==
    /\ showResults
    /\ showResults' = FALSE
    /\ results' = <<>>
    /\ feedbackRow' = None
    /\ UNCHANGED <<wetPref, widthPref, loading, feedback, gen, call, relay>>

\* The reset button (line 359), rendered while the results are shown.  The
\* page never reads a sent feedback row back; the model forgets the row with
\* the results it was sent for.
handleReset ==
    /\ showResults
    /\ showResults' = FALSE
    /\ results' = <<>>
    /\ feedback' = None
    /\ feedbackRow' = None
    /\ UNCHANGED <<wetPref, widthPref, loading, gen, call, relay>>

\* The logo (line 342), always rendered.
handleLogoClick ==
    /\ IF showResults
       THEN /\ showResults' = FALSE
            /\ results' = <<>>
            /\ feedback' = None
            /\ feedbackRow' = None
       ELSE UNCHANGED <<showResults, results, feedback, feedbackRow>>
    /\ UNCHANGED <<wetPref, widthPref, loading, gen, call, relay>>

\* results[k] ? `${brand} ${model} ${width_spec_mm}mm` : null, with the row's
\* key standing for its brand and model.
TireName(k) ==
    IF k <= Len(results)
    THEN Some([tire |-> results[k].id, width |-> results[k].width_spec_mm])
    ELSE None

\* The feedback buttons (line 618), rendered while the results are shown:
\* lines 204-235, the row sent to the feedback table.
handleFeedback ==
    /\ showResults
    /\ \E value \in FeedbackValues :
          /\ feedback' = Some(value)
          /\ feedbackRow' = Some([helpfulness |-> value,
                                  q1_importance |-> wetPref,
                                  q2_width_pref |-> widthPref,
                                  top1 |-> TireName(1),
                                  top2 |-> TireName(2),
                                  top3 |-> TireName(3)])
    /\ UNCHANGED <<wetPref, widthPref, results, loading, showResults, gen, call, relay>>

Init ==
    /\ UIInit
    /\ call = NoCall
    /\ relay = IdleRelay

Next ==
    \/ SetWetPref
    \/ SetWidthPref
    \/ GenerateClick
    \/ GenerateFetchFails
    \/ GenerateFetchReturns
    \/ ExplainSettles
    \/ ExplainThrows
    \/ ExplainNullData
    \/ handleReset
    \/ handleLogoClick
    \/ handleFeedback

Spec == Init /\ [][Next]_vars

---------------------------------------------------------------------------
(* The webhook relay (src/unnamed/part_000).                               *)
(* JavaScript values of the request are tagged: [t |-> "undefined"],       *)
(* [t |-> "string", v |-> ...], [t |-> "number", v |-> its digits].  A     *)
(* request body is undefined or an object with a text property (undefined  *)
(* when the property is missing).  JSON.stringify(x) is kept as            *)
(* [json |-> x]: the JSON text of the value x.                             *)

Undefined == [t |-> "undefined"]
Str(v) == [t |-> "string", v |-> v]
Num(v) == [t |-> "number", v |-> v]

Methods == {"POST", "GET", "PUT"}
\* process.env.FEISHU_WEBHOOK: unset, set to the empty string, set to a URL.
WebhookEnvs == {Undefined, Str(""), Str("https://hook.example/bot")}
TextValues == {Undefined, Num("5"), Str(""), Str("hi"), Str("ride at 8"), Str("0")}
Bodies == {Undefined} \cup { [t |-> "object", text |-> x] : x \in TextValues }

\* What the webhook can answer: a status and a body text.
UpstreamResponses == { [status |-> st, text |-> tx] : st \in {200, 204, 400, 502}, tx \in {"", "bad request"} }

\* response.ok
Ok(resp) == 200 <= resp.status /\ resp.status <= 299

\* !x for the values above: undefined, null and "" are falsy.
Falsy(x) == x.t = "undefined" \/ x = Str("")

\* A payload of the webhook's rich-text type.
buildPayload_PostType(text) == [msg_type |-> "post", content |-> [text |-> text]]

buildPayload(text) == [msg_type |-> "text", content |-> [text |-> text]]

\* req.body?.text
BodyText(body) == IF body.t = "undefined" THEN Undefined ELSE body.text

\* typeof req.body?.text === "string" ? req.body.text : null
TextOrNull(body) == IF BodyText(body).t = "string" THEN BodyText(body) ELSE Undefined

Respond(status, body) == [status |-> status, body |-> body]

NewRelay(method, env, body) ==
    [pc |-> "start", method |-> method, webhook |-> env, body |-> body,
     sent |-> <<>>, responses |-> <<>>, upstream |-> None]

\* The handler with the webhook test before the method test.
handlerEntry_EnvFirst(method, env, body) ==
    LET r == NewRelay(method, env, body)
        text == TextOrNull(body)
    IN  IF Falsy(env)
        THEN [r EXCEPT !.pc = "done", !.responses = <<Respond(500, "Missing FEISHU_WEBHOOK")>>]
        ELSE IF method # "POST"
        THEN [r EXCEPT !.pc = "done", !.responses = <<Respond(405, "Method Not Allowed")>>]
        ELSE IF Falsy(text)
        THEN [r EXCEPT !.pc = "done", !.responses = <<Respond(400, "Invalid payload")>>]
        ELSE [r EXCEPT !.pc = "awaitFetch",
                       !.sent = <<[url |-> env.v, method |-> "POST",
                                   contentType |-> "application/json",
                                   body |-> [json |-> buildPayload(text.v)]]>>]

\* Lines 6-28: the handler up to its first await.
handlerEntry(method, env, body) ==
    LET r == NewRelay(method, env, body)
        text == TextOrNull(body)
    IN  IF method # "POST"
        THEN [r EXCEPT !.pc = "done", !.responses = <<Respond(405, "Method Not Allowed")>>]
        ELSE IF Falsy(env)
        THEN [r EXCEPT !.pc = "done", !.responses = <<Respond(500, "Missing FEISHU_WEBHOOK")>>]
        ELSE IF Falsy(text)
        THEN [r EXCEPT !.pc = "done", !.responses = <<Respond(400, "Invalid payload")>>]
        ELSE [r EXCEPT !.pc = "awaitFetch",
                       !.sent = <<[url |-> env.v, method |-> "POST",
                                   contentType |-> "application/json",
                                   body |-> [json |-> buildPayload(text.v)]]>>]

RelayInit ==
    /\ UIInit
    /\ call = NoCall
    /\ relay = IdleRelay

\* A request arrives and the handler runs to its first await or to its end.
\* Invocations share no state, so the model follows one at a time.
RelayRequest ==
    /\ relay.pc \in {"idle", "done", "rejected"}
    /\ \E method \in Methods, env \in WebhookEnvs, body \in Bodies :
          relay' = handlerEntry(method, env, body)
    /\ UNCHANGED <<uiVars, call>>

\* Line 24 resolves; lines 30-36.
RelayFetchReturn ==
    /\ relay.pc = "awaitFetch"
    /\ \E resp \in UpstreamResponses :
          relay' = IF ~Ok(resp)
                   THEN [relay EXCEPT !.pc = "awaitText", !.upstream = Some(resp)]
                   ELSE [relay EXCEPT !.pc = "done", !.upstream = Some(resp),
                                      !.responses = Append(@, Respond(200, "ok"))]
    /\ UNCHANGED <<uiVars, call>>

\* Line 24 rejects (the webhook cannot be reached): nothing catches it, the
\* handler's promise rejects with no response sent.
RelayFetchThrows ==
    /\ relay.pc = "awaitFetch"
    /\ relay' = [relay EXCEPT !.pc = "rejected"]
    /\ UNCHANGED <<uiVars, call>>

\* Line 31 resolves; lines 32-33.
RelayTextReturn ==
    /\ relay.pc = "awaitText"
    /\ relay' = [relay EXCEPT !.pc = "done",
                              !.responses = Append(@, Respond(Val(relay.upstream).status,
                                                              Val(relay.upstream).text))]
    /\ UNCHANGED <<uiVars, call>>

\* Line 31 rejects (the body cannot be read).
RelayTextThrows ==
    /\ relay.pc = "awaitText"
    /\ relay' = [relay EXCEPT !.pc = "rejected"]
    /\ UNCHANGED <<uiVars, call>>

RelayNext ==
    \/ RelayRequest
    \/ RelayFetchReturn
    \/ RelayFetchThrows
    \/ RelayTextReturn
    \/ RelayTextThrows

SpecRelay == RelayInit /\ [][RelayNext]_vars

---------------------------------------------------------------------------
(* The ranking on its own: every candidate list and pair of preferences. *)

RankInit ==
    /\ UIInit
    /\ relay = IdleRelay
    /\ \E d \in FetchLists(MaxFetch), wp \in WetPreference, wdp \in WidthPreference :
          call = [op |-> "rank", data |-> d, wetPref |-> wp, widthPref |-> wdp,
                  done |-> FALSE, ret |-> <<>>]

RankCall ==
    /\ call.op = "rank" /\ ~call.done
    /\ call' = [call EXCEPT !.done = TRUE, !.ret = Top3(call.data, call.wetPref, call.widthPref)]
    /\ UNCHANGED <<uiVars, relay>>

RankNext == RankCall

SpecRank == RankInit /\ [][RankNext]_vars

---------------------------------------------------------------------------
(* generateReason on its own: scored tires around both thresholds. *)

\* wet_center and wet_edge around 75, rr_high_w around 12, any width.
ReasonShapes ==
    { Shape(w, <<Some(c), Some(e), Some(r)>>) :
        w \in {None, Some(28), Some(30)}, c \in 74..76, e \in 74..76, r \in 11..13 }

ReasonInit ==
    /\ UIInit
    /\ relay = IdleRelay
    /\ \E sh \in ReasonShapes, wp \in WetPreference :
          call = [op |-> "reason",
                  tire |-> ScoreTire(WithIds(<<sh>>)[1], WEIGHT_CONFIG[wp]),
                  wetPref |-> wp, done |-> FALSE, ret |-> ""]

ReasonCall ==
    /\ call.op = "reason" /\ ~call.done
    /\ call' = [call EXCEPT !.done = TRUE, !.ret = generateReason(call.tire, call.wetPref)]
    /\ UNCHANGED <<uiVars, relay>>

ReasonNext == ReasonCall

SpecReason == ReasonInit /\ [][ReasonNext]_vars

---------------------------------------------------------------------------
(* Properties of the ranking, stated on a finished call: call.data is the  *)
(* fetched list, call.ret the top-3 list.  They name eligibility, width    *)
(* membership and the score by their definitions in the specification, not *)
(* by the operators above.                                                 *)

RankDone == call.op = "rank" /\ call.done

Eligible(t) == t.wet_center # <<>> /\ t.wet_edge # <<>> /\ t.rr_high_w # <<>>

\* narrow -> {28}; wide -> {30, 32}; a missing width is in neither.
InPreferredSet(t, wdp) ==
    IF wdp = "28" THEN t.width_spec_mm = <<28>>
    ELSE t.width_spec_mm \in { <<30>>, <<32>> }

\* score = wg*wg_weight + (30 - rr)*rr_weight, in hundredths.
StatedScore(t, wp) ==
    LET wc == t.wet_center[1]
        we == t.wet_edge[1]
        wg == IF wc <= we THEN wc ELSE we
        rn == 30 - t.rr_high_w[1]
    IN  CASE wp = "very"   -> wg * 80 + rn * 20
          [] wp = "normal" -> wg * 60 + rn * 40
          [] wp = "not"    -> wg * 35 + rn * 65

RetIds == { call.ret[k].id : k \in 1..Len(call.ret) }
PosOf(id) == CHOOSE k \in 1..Len(call.ret) : call.ret[k].id = id

\* C1: the top-3 list has at most 3 items, and each of them is a row of the
\* fetched list (same key, same columns) whose wet_center, wet_edge and
\* rr_high_w are all non-null.
C1_AtMost3Eligible ==
    RankDone =>
        /\ Len(call.ret) <= 3
        /\ \A k \in 1..Len(call.ret) :
              \E i \in 1..Len(call.data) :
                 /\ call.data[i].id = call.ret[k].id
                 /\ call.data[i].width_spec_mm = call.ret[k].width_spec_mm
                 /\ call.data[i].wet_center = call.ret[k].wet_center
                 /\ call.data[i].wet_edge = call.ret[k].wet_edge
                 /\ call.data[i].rr_high_w = call.ret[k].rr_high_w
                 /\ Eligible(call.data[i])

\* The list holds 3 eligible rows and an ineligible one, and the
\* call returned 3 items.
C1_Witness ==
    /\ RankDone
    /\ Len(call.ret) = 3
    /\ Cardinality({ i \in 1..Len(call.data) : Eligible(call.data[i]) }) = 3
    /\ \E i \in 1..Len(call.data) : ~Eligible(call.data[i])

\* C2: width dominance.  A preferred-width item of the result is before
\* every non-preferred item of it, whatever the scores; and a non-preferred
\* item is in the result only if every eligible preferred-width row of the
\* fetched list is in it.
C2_WidthDominance ==
    RankDone =>
        /\ \A a, b \in 1..Len(call.ret) :
              (InPreferredSet(call.ret[a], call.widthPref)
                 /\ ~InPreferredSet(call.ret[b], call.widthPref)) => a < b
        /\ (\E k \in 1..Len(call.ret) : ~InPreferredSet(call.ret[k], call.widthPref))
              => \A i \in 1..Len(call.data) :
                    (Eligible(call.data[i]) /\ InPreferredSet(call.data[i], call.widthPref))
                       => call.data[i].id \in RetIds

\* A preferred item is ranked before a non-preferred item of higher score.
C2_Witness ==
    /\ RankDone
    /\ \E a, b \in 1..Len(call.ret) :
          /\ a < b
          /\ InPreferredSet(call.ret[a], call.widthPref)
          /\ ~InPreferredSet(call.ret[b], call.widthPref)
          /\ call.ret[a].score < call.ret[b].score

\* C3: of two eligible rows with the same width-preference membership and
\* different scores, the higher-scoring one is before the lower-scoring one
\* when both are in the result, and the lower-scoring one is never in the
\* result without the higher-scoring one.
C3_ScoreOrderWithinTier ==
    RankDone =>
        \A i, j \in 1..Len(call.data) :
           ( /\ Eligible(call.data[i]) /\ Eligible(call.data[j])
             /\ InPreferredSet(call.data[i], call.widthPref)
                  = InPreferredSet(call.data[j], call.widthPref)
             /\ StatedScore(call.data[i], call.wetPref) > StatedScore(call.data[j], call.wetPref) )
           => /\ call.data[j].id \in RetIds => call.data[i].id \in RetIds
              /\ (call.data[i].id \in RetIds /\ call.data[j].id \in RetIds)
                    => PosOf(call.data[i].id) < PosOf(call.data[j].id)

\* Four rows of one tier: the lowest-scoring one, fetched first, is cut off,
\* and the result reverses the fetch order of two others.
C3_Witness ==
    /\ RankDone
    /\ Len(call.data) = 4
    /\ \A i \in 1..4 : Eligible(call.data[i]) /\ InPreferredSet(call.data[i], call.widthPref)
    /\ 1 \notin RetIds
    /\ \E a, b \in 1..Len(call.ret) : a < b /\ call.ret[a].id > call.ret[b].id

\* The example of the specification: [width 28, wet 70/72, rr 10],
\* [width 30, wet 90/92, rr 8], [width 28, wet 60/61, rr 20].
ExampleData ==
    << [id |-> 1, width_spec_mm |-> <<28>>, wet_center |-> <<70>>, wet_edge |-> <<72>>, rr_high_w |-> <<10>>],
       [id |-> 2, width_spec_mm |-> <<30>>, wet_center |-> <<90>>, wet_edge |-> <<92>>, rr_high_w |-> <<8>>],
       [id |-> 3, width_spec_mm |-> <<28>>, wet_center |-> <<60>>, wet_edge |-> <<61>>, rr_high_w |-> <<20>>] >>

IsExampleCall ==
    call.op = "rank" /\ call.data = ExampleData /\ call.wetPref = "not" /\ call.widthPref = "28"

\* C10: every item of the result carries wg = min(wet_center, wet_edge),
\* rr = rr_high_w and score = wg*wg_weight + (30 - rr)*rr_weight with the
\* weights very (0.8, 0.2), normal (0.6, 0.4), not (0.35, 0.65); and for the
\* example (wetPref not, widthPref narrow) the result is item1, item3, item2
\* with the scores 37.5, 27.5, 45.8 (here in hundredths).
C10_ScoreAndExample ==
    RankDone =>
        /\ \A k \in 1..Len(call.ret) :
              /\ call.ret[k].score = StatedScore(call.ret[k], call.wetPref)
              /\ call.ret[k].rr = call.ret[k].rr_high_w[1]
              /\ call.ret[k].wg <= call.ret[k].wet_center[1]
              /\ call.ret[k].wg <= call.ret[k].wet_edge[1]
              /\ call.ret[k].wg \in { call.ret[k].wet_center[1], call.ret[k].wet_edge[1] }
        /\ IsExampleCall =>
              /\ [k \in 1..Len(call.ret) |-> call.ret[k].id] = <<1, 3, 2>>
              /\ [k \in 1..Len(call.ret) |-> call.ret[k].score] = <<3750, 2750, 4580>>

C10_Witness == RankDone /\ IsExampleCall /\ Len(call.ret) = 3

---------------------------------------------------------------------------
(* The fallback explanation. *)

\* The table of the specification, on wg = min(wet_center, wet_edge) and
\* rr = rr_high_w.
StatedTag(wg, rr, wp) ==
    CASE wp = "very"   -> IF wg >= 75 THEN "wet-priority, strong grip"
                          ELSE "acceptable wet performance"
      [] wp = "not"    -> IF rr <= 12 THEN "efficiency-optimized, low resistance"
                          ELSE "balanced"
      [] wp = "normal" -> IF wg >= 75 /\ rr <= 12 THEN "all-around, wet+efficient"
                          ELSE IF wg >= 75 THEN "wet-focused, acceptable efficiency"
                          ELSE IF rr <= 12 THEN "efficiency-focused, acceptable wet"
                          ELSE "balanced, daily-use"

ReasonDone == call.op = "reason" /\ call.done

\* C5: generateReason(tire, wetPref) is the tag the table gives for
\* (wg, rr, wetPref), whatever the tire's other fields: very -> strong-grip
\* iff wg >= 75; not -> low-resistance iff rr <= 12; normal -> all-around iff
\* both, else wet-focused iff wg >= 75, else efficiency-focused iff rr <= 12,
\* else balanced-daily; the boundary values wg = 75 and rr = 12 included.
C5_ReasonMatchesTable ==
    ReasonDone =>
        LET c == call.tire.wet_center[1]
            e == call.tire.wet_edge[1]
        IN  call.ret = StatedTag(IF c <= e THEN c ELSE e, call.tire.rr_high_w[1], call.wetPref)

\* Both boundary values at once, under "normal".
C5_Witness ==
    /\ ReasonDone
    /\ call.tire.wg = 75 /\ call.tire.rr = 12 /\ call.wetPref = "normal"
    /\ call.ret = "all-around, wet+efficient"

---------------------------------------------------------------------------
(* The relay. *)

RelayStarted == relay.pc # "idle"
RelayFinished == relay.pc \in {"done", "rejected"}

IsStringText(body) == body # [t |-> "undefined"] /\ body.text.t = "string"
Configured(env) == env.t = "string" /\ env.v # ""

\* The request the relay is to send for the text tx.
StatedForward(url, tx) ==
    [url |-> url, method |-> "POST", contentType |-> "application/json",
     body |-> [json |-> [msg_type |-> "text", content |-> [text |-> tx]]]]

\* C7 as stated: a POST whose body carries a string text, with the webhook
\* configured, is forwarded as {msg_type: "text", content: {text}}, and on
\* the webhook's success the relay responds 200 "ok".
C7_AsStated ==
    (RelayStarted /\ relay.method = "POST" /\ Configured(relay.webhook)
       /\ IsStringText(relay.body))
    => /\ relay.sent = <<StatedForward(relay.webhook.v, relay.body.text.v)>>
       /\ (relay.pc = "done" /\ relay.upstream # <<>> /\ relay.upstream[1].status \in 200..299)
             => relay.responses = <<[status |-> 200, body |-> "ok"]>>

\* C7, amended: the same for a text that is a string and not empty (the
\* empty string is answered 400 and not forwarded).
C7_ForwardNonEmptyText ==
    (RelayStarted /\ relay.method = "POST" /\ Configured(relay.webhook)
       /\ IsStringText(relay.body) /\ relay.body.text.v # "")
    => /\ relay.sent = <<StatedForward(relay.webhook.v, relay.body.text.v)>>
       /\ (relay.pc = "done" /\ relay.upstream # <<>> /\ relay.upstream[1].status \in 200..299)
             => relay.responses = <<[status |-> 200, body |-> "ok"]>>

\* A text was forwarded, the webhook answered ok, the relay answered 200.
C7_Witness ==
    /\ relay.pc = "done"
    /\ Len(relay.sent) = 1
    /\ relay.sent[1].body.json.content.text = "ride at 8"
    /\ relay.upstream # <<>> /\ relay.upstream[1].status = 204
    /\ relay.responses = <<[status |-> 200, body |-> "ok"]>>

\* C8: 405 for a non-POST request (also when the webhook is unconfigured),
\* else 500 when the webhook is unconfigured (also when the text is
\* invalid), else 400 when text is missing or not a string; in these three
\* cases there is exactly this response and nothing is sent to the webhook.
C8_Rejections ==
    RelayStarted =>
        LET only(st) == /\ relay.pc = "done"
                        /\ Len(relay.responses) = 1
                        /\ relay.responses[1].status = st
                        /\ relay.sent = <<>>
        IN  /\ relay.method # "POST" => only(405)
            /\ (relay.method = "POST" /\ ~Configured(relay.webhook)) => only(500)
            /\ (relay.method = "POST" /\ Configured(relay.webhook)
                  /\ ~IsStringText(relay.body)) => only(400)

\* A non-POST request with the webhook unconfigured got 405.
C8_Witness ==
    /\ RelayStarted
    /\ relay.method = "GET"
    /\ relay.webhook = [t |-> "undefined"]
    /\ relay.responses = <<[status |-> 405, body |-> "Method Not Allowed"]>>

\* C9 as stated: a non-ok answer of the webhook is echoed (its status and
\* body, never 200), the webhook is called exactly once per accepted
\* request, and every request receives exactly one response.
C9_AsStated ==
    RelayFinished =>
        /\ Len(relay.responses) = 1
        /\ Len(relay.sent) = IF relay.method = "POST" /\ Configured(relay.webhook)
                                   /\ IsStringText(relay.body) /\ relay.body.text.v # ""
                              THEN 1 ELSE 0
        /\ (relay.upstream # <<>> /\ relay.upstream[1].status \notin 200..299)
              => /\ relay.responses[1].status = relay.upstream[1].status
                 /\ relay.responses[1].body = relay.upstream[1].text
                 /\ relay.responses[1].status # 200

---------------------------------------------------------------------------
(* The page: failures of the fetch and of the explanation lookups. *)

FailedLookup(st) == st \in {"error", "threw", "nodata"}

\* The fallback explanation the specification's table gives for an item.
StatedFallback(t, wp) ==
    StatedTag(IF t.wet_center[1] <= t.wet_edge[1] THEN t.wet_center[1] ELSE t.wet_edge[1],
              t.rr_high_w[1], wp)

\* C4 as stated: when the lookup of an item fails, by a provider error or by
\* an exception, the request still ends with all lookups settled and with
\* all top-3 items displayed, the failed items with the local fallback
\* explanation and the others with the provider's.
C4_AsStated ==
    [][ ( /\ gen.pc = "explain" /\ gen'.pc = "done"
          /\ \E k \in 1..Len(gen'.expl) : FailedLookup(gen'.expl[k]) )
        => /\ \A k \in 1..Len(gen'.expl) : gen'.expl[k] # "pending"
           /\ showResults' /\ ~loading'
           /\ Len(results') = Len(gen.top3)
           /\ \A k \in 1..Len(gen.top3) :
                 /\ results'[k].id = gen.top3[k].id
                 /\ IF FailedLookup(gen'.expl[k])
                    THEN results'[k].explanation = StatedFallback(gen.top3[k], gen.wetPref)
                    ELSE results'[k].explanation \in ProviderTexts
      ]_vars

\* C6: after a failed candidate fetch the request is over with loading
\* false, nothing scored, no explanation lookup issued and nothing shown:
\* the page is in the input view with empty results.
C6_FetchFailureAborts ==
    (gen.pc = "done" /\ gen.outcome \in {"fetchError", "fetchThrew"})
    => /\ loading = FALSE
       /\ showResults = FALSE
       /\ results = <<>>
       /\ gen.scored = FALSE
       /\ gen.lookups = 0

\* A fetch failed on a request made under "very", the preference having
\* been changed to "not" while it was loading.
C6_Witness ==
    /\ gen.pc = "done"
    /\ gen.outcome = "fetchError"
    /\ gen.wetPref = "very"
    /\ wetPref = "not"
    /\ ~loading

---------------------------------------------------------------------------
(* The page: reset, feedback and the two views. *)

\* C11: a step of handleReset, and a step of handleLogoClick taken while the
\* results are shown, ends in the input view with an empty results list and
\* no feedback selection, and leaves wetPref and widthPref as they were.
C11_ResetDiscardsResults ==
    [][ (handleReset \/ (showResults /\ handleLogoClick))
        => /\ showResults' = FALSE
           /\ results' = <<>>
           /\ feedback' = <<>>
           /\ wetPref' = wetPref
           /\ widthPref' = widthPref
      ]_vars

\* Results were shown for preferences other than the initial ones and then
\* discarded: the page is back in the input view with the preferences kept.
C11_Witness ==
    /\ gen.pc = "done" /\ gen.outcome = "shown" /\ gen.lookups = 3
    /\ ~showResults
    /\ results = <<>>
    /\ feedback = <<>>
    /\ wetPref = "very" /\ widthPref = "wider"

---------------------------------------------------------------------------
(* The partition by width, on a finished call of the ranking: the two      *)
(* lists lines 117-122 build from the scored rows of call.data.            *)

CallScored == tiresWithScore(validTires(call.data), call.wetPref)
CallPreferred == preferred(CallScored, call.widthPref)
CallOthers == others(CallScored, call.widthPref)

IdsOf(seq) == { seq[k].id : k \in 1..Len(seq) }
EligibleIds == { call.data[i].id : i \in { j \in 1..Len(call.data) : Eligible(call.data[j]) } }

\* C12: preferred and others are disjoint and together hold every eligible
\* row exactly once; a row is in preferred iff its width is 28 (narrow) or
\* is 30 or 32 (wide); a row with no width is in others; the result has
\* exactly min(3, number of eligible rows) items, none of them twice, so a
\* row with no width is in the result whenever at most 3 rows are eligible.
C12_PartitionByWidth ==
    RankDone =>
        /\ IdsOf(CallPreferred) \cap IdsOf(CallOthers) = {}
        /\ IdsOf(CallPreferred) \cup IdsOf(CallOthers) = EligibleIds
        /\ Len(CallPreferred) + Len(CallOthers) = Cardinality(EligibleIds)
        /\ \A i \in 1..Len(call.data) :
              Eligible(call.data[i]) =>
                 /\ call.data[i].id \in IdsOf(CallPreferred)
                       <=> InPreferredSet(call.data[i], call.widthPref)
                 /\ call.data[i].width_spec_mm = <<>> => call.data[i].id \in IdsOf(CallOthers)
                 /\ (call.data[i].width_spec_mm = <<>> /\ Cardinality(EligibleIds) <= 3)
                       => call.data[i].id \in RetIds
        /\ Len(call.ret) = (IF Cardinality(EligibleIds) < 3 THEN Cardinality(EligibleIds) ELSE 3)
        /\ Cardinality(RetIds) = Len(call.ret)

\* Four eligible rows, two of the preferred width: the result holds both,
\* then a row with no width, taken from others.
C12_Witness ==
    /\ RankDone
    /\ Cardinality(EligibleIds) = 4
    /\ Len(CallPreferred) = 2
    /\ Len(call.ret) = 3
    /\ call.ret[3].width_spec_mm = <<>>
    /\ call.ret[3].id \in IdsOf(CallOthers)

---------------------------------------------------------------------------
(* The feedback row and the request that computed the displayed results.   *)
(* While results are shown, gen is the finished invocation that set them   *)
(* and gen.wetPref, gen.widthPref are the preferences it ranked with.      *)

\* C13 as stated: the q1_importance and q2_width_pref of the row
\* handleFeedback writes are the wetPref and widthPref the displayed results
\* were computed with, whatever the user did while the request was loading.
C13_AsStated ==
    (showResults /\ feedbackRow # <<>>)
    => /\ feedbackRow[1].q1_importance = gen.wetPref
       /\ feedbackRow[1].q2_width_pref = gen.widthPref

---------------------------------------------------------------------------
(* The two views. *)

GenInFlight == gen.pc \in {"fetch", "explain"}

\* C14: the view is the input view or the results view (showResults is a
\* boolean); in the input view the results list is empty and no feedback is
\* selected; loading is true exactly while a ranking request is in flight;
\* and a request starts (handleGenerate begins its fetch) only in the input
\* view with loading false and no request in flight, so there is never more
\* than one.
C14_ViewStateMachine ==
    /\ [](showResults \in BOOLEAN)
    /\ [](~showResults => (results = <<>> /\ feedback = <<>>))
    /\ [](loading <=> GenInFlight)
    /\ [][ (gen'.pc = "fetch" /\ gen.pc # "fetch")
           => (~showResults /\ ~loading /\ ~GenInFlight) ]_vars

\* A request is in flight in the input view, nothing shown: its first
\* lookup answered with an error and its second one is still pending.
C14_Witness ==
    /\ gen.pc = "explain"
    /\ loading
    /\ ~showResults /\ results = <<>> /\ feedback = <<>>
    /\ Len(gen.top3) = 2
    /\ gen.expl = <<"error", "pending">>

=============================================================================
